---- MODULE Spec2Model ----
(***************************************************************************)
(* A model of the search and execution engine of machetli: the greedy      *)
(* descent search, the LocalEnvironment and the SlurmEnvironment of        *)
(* machetli/environments.py, and the helpers of machetli/tools.py.         *)
(*                                                                         *)
(* Reading of the source.  environments.py is in the middle of a           *)
(* refactoring: the in-flight batch is called self.current_job in submit   *)
(* and _poll_job and self.job in wait_until_finished and                   *)
(* get_improving_successor, and a task is an EvaluationTask in the former  *)
(* and a dictionary with the keys "successor" and "dir" in the latter.     *)
(* The model has one field, current_job, whose tasks carry the successor,  *)
(* the task id, the run directory and the slurm status.  _poll_job is the  *)
(* new classification loop (lines 431-445) followed by the old decision    *)
(* (lines 462-475) on the same classification.                             *)
(*                                                                         *)
(* The search driver (machetli/search.py), the evaluator invoker           *)
(* (machetli/evaluator.py), the successor generators, the scheduler and    *)
(* the script that runs on the compute nodes are modelled from the         *)
(* specification of the engine.                                            *)
(***************************************************************************)
EXTENDS Integers, Sequences, FiniteSets, TLC

VARIABLES
    \* configuration, fixed during a run
    envKind,        \* "local" (LocalEnvironment) or "slurm" (SlurmEnvironment)
    nondet,         \* Environment.allow_nondeterministic_successor_choice
    batch_size,     \* Environment.batch_size
    pipeline,       \* the list of successor generators handed to the search
    evaluator,      \* which evaluator program is used
    caller,         \* "search": the search driver; "any": a client calling in any order
    initial,        \* the initial state handed to the search
    \* the caller of the environment
    current,        \* the current state of the search
    gen,            \* index (1-based) of the current successor generator
    stream,         \* what is left of the current generator's successor stream
    pc,             \* where the caller is in the submit / wait / collect cycle
    commits,        \* the successors the search committed to, in order
    passed_over,    \* whether a successor the search submitted was left without a
                    \* verdict: "never", "before" the last commit only, or "here",
                    \* since the last commit
    call,           \* the last call of an environment operation and how it ended
    \* LocalEnvironment
    successor,      \* LocalEnvironment.successor
    \* SlurmEnvironment
    current_job,    \* SlurmEnvironment.current_job (alias self.job)
    critical,       \* SlurmEnvironment.critical
    batch_id,       \* SlurmEnvironment.batch_id
    \* the world outside of the login node
    batch,          \* the batch handed to the last submit
    outcome,        \* per successor of the batch: the outcome of its evaluation
    sched,          \* per task of the array job: its state in the scheduler
    files,          \* per task: the content of exit_code in its run directory
    first_success,  \* the first task that completed with SUCCESS (1-based), or 0
    jobs,           \* number of array jobs the scheduler accepted
    dirs,           \* the run directories that exist in eval_dir
    \* a call of SlurmEnvironment._wait_for_filesystem
    visible_at,     \* per path: the second after the call from which it exists
    paths,          \* the local variable paths: the paths not yet found
    attempt,        \* the iterations of the loop that were begun
    probes,         \* how often the filesystem was asked
    clock,          \* the seconds since the call
    wait_pc,        \* "idle", "loop" (at the head of the loop), "sleep", "returned"
    wait_result,    \* what the call returned
    \* tools.py and the static helpers
    abort_handler,  \* whether configure_logging installed ErrorAbortHandler
    tool            \* the last call of a helper: its arguments and how it ended

cfgVars   == <<envKind, nondet, batch_size, pipeline, evaluator, caller, initial>>
drvVars   == <<current, gen, stream, commits, passed_over>>
localVars == <<successor>>
slurmVars == <<current_job, critical, batch_id>>
worldVars == <<batch, outcome, sched, files, first_success, jobs, dirs>>
waitVars  == <<visible_at, paths, attempt, probes, clock, wait_pc, wait_result>>
toolVars  == <<abort_handler, tool>>
vars      == <<cfgVars, drvVars, pc, call, localVars, slurmVars, worldVars, waitVars,
               toolVars>>

----------------------------------------------------------------------------
\* Bounds of the model.

\* The initial state of the search is the number MaxN; states are 0..MaxN.
MaxN == 3
\* The search uses an environment with a batch size in 1..MaxBatch.
MaxBatch == 3
\* A client that calls in any order submits batches of up to MaxClientBatch
\* successors,
MaxClientBatch == 2
\* and at most MaxSubmits of them.
MaxSubmits == 2
\* _wait_for_filesystem is called with up to MaxPaths paths.
MaxPaths == 2
\* The memory strings handed to _get_memory_in_kb have up to MaxMemLen
\* characters.
MaxMemLen == 3
\* A run has a time limit of up to MaxTime seconds
MaxTime == 2
\* and a memory limit of up to MaxMem MiB.
MaxMem == 2

----------------------------------------------------------------------------
\* Values.

\* Python's None where a successor is expected, and where a job is expected.
None == [state |-> -1, change |-> "None"]
NoJob == [job_id |-> "None", tasks |-> <<>>]
\* The content of a file that does not exist.
NoFile == "absent"

States == 0..MaxN

Outcomes == {"SUCCESS", "FAILURE", "TIMEOUT", "MEMOUT", "ERROR"}

FILESYSTEM_TIME_INTERVAL == 3
FILESYSTEM_TIME_LIMIT == 60

DONE_STATES == {"COMPLETED"}
BUSY_STATES == {"PENDING", "RUNNING", "REQUEUED", "SUSPENDED"}

Min(S) == CHOOSE x \in S : \A y \in S : x <= y

\* The first n elements of s, and s without them.
Take(s, n) == SubSeq(s, 1, IF n < Len(s) THEN n ELSE Len(s))
Drop(s, n) == SubSeq(s, (IF n < Len(s) THEN n ELSE Len(s)) + 1, Len(s))

----------------------------------------------------------------------------
\* Successor generators: a successor is a pair of a state and a change label.

Successor(s, label) == [state |-> s, change |-> label]

\* The stream of successors of generator g on state s.
\*   "decrement" yields n-1 while n > 0;
\*   "halve"     yields n div 2 while n > 0;
\*   "smaller"   yields n-1, n-2, ..., 0 (one successor per removable part).
get_successors(g, s) ==
    CASE g = "decrement" -> IF s > 0 THEN <<Successor(s - 1, g)>> ELSE <<>>
      [] g = "halve"     -> IF s > 0 THEN <<Successor(s \div 2, g)>> ELSE <<>>
      [] g = "smaller"   -> [i \in 1..s |-> Successor(s - i, g)]

Pipelines == {<<"smaller">>, <<"halve", "decrement">>}

\* The outcomes an evaluation of state s can have under evaluator e.
Verdicts(e, s) ==
    CASE e = "any"  -> Outcomes
      [] e = "ge2"  -> IF s >= 2 THEN {"SUCCESS"} ELSE {"FAILURE"}
      [] e = "gt0"  -> IF s > 0 THEN {"SUCCESS"} ELSE {"FAILURE"}
      [] e = "none" -> {"FAILURE"}

\* evaluator.is_evaluator_successful: only SUCCESS counts as success.
is_evaluator_successful(o) == o = "SUCCESS"

\* What the evaluation of a task with outcome o leaves in its exit_code file:
\* the exit code of the evaluator, as text.
ExitCodeText(o) ==
    CASE o = "SUCCESS" -> "0"
      [] o = "TIMEOUT" -> "33"
      [] o = "MEMOUT"  -> "34"
      [] o = "FAILURE" -> "1"
      [] o = "ERROR"   -> "2"

\* environments._parse_exit_code: int() of the content of the file.
parse_exit_code(text) ==
    CASE text = "0"  -> 0
      [] text = "1"  -> 1
      [] text = "2"  -> 2
      [] text = "33" -> 33
      [] text = "34" -> 34

\* The index (1-based) of the first SUCCESS in a sequence of outcomes, or 0.
FirstSuccess(os) ==
    LET S == {i \in 1..Len(os) : is_evaluator_successful(os[i])}
    IN  IF S = {} THEN 0 ELSE Min(S)

----------------------------------------------------------------------------
\* How a call of an environment operation ended: the exception it raised
\* ("none" when it returned, "blocked" while it has not ended), what it
\* returned and whether it logged a warning about a missing result file.
\* phase is the caller's position when the call was made; prev and prevRaised
\* are the operation called before it and how that one ended.

Call(op, raised, result, warned, phase) ==
    [op |-> op, raised |-> raised, result |-> result, warned |-> warned,
     phase |-> phase, prev |-> call.op, prevRaised |-> call.raised]

NoCall == [op |-> "none", raised |-> "none", result |-> None, warned |-> FALSE,
           phase |-> "idle", prev |-> "none", prevRaised |-> "none"]

----------------------------------------------------------------------------
\* LocalEnvironment (environments.py, lines 105-130).

\* LocalEnvironment.submit without the break: every successor is evaluated
\* and the last successful one is kept.
LocalEnvironment_submit_no_break(succ, b, os) ==
    IF succ # None
    THEN [raised |-> "AssertionError", successor |-> succ,
          outcome |-> [i \in 1..Len(b) |-> "none"]]
    ELSE LET S == {i \in 1..Len(b) : is_evaluator_successful(os[i])}
         IN  [raised |-> "none",
              successor |-> IF S = {} THEN None
                            ELSE b[CHOOSE x \in S : \A y \in S : y <= x],
              outcome |-> os]

\* LocalEnvironment.submit letting an evaluation that ran out of resources or
\* crashed end the loop with an exception.
LocalEnvironment_submit_aborts_on_error(succ, b, os) ==
    IF succ # None
    THEN [raised |-> "AssertionError", successor |-> succ,
          outcome |-> [i \in 1..Len(b) |-> "none"]]
    ELSE LET k == FirstSuccess(os)
             E == {i \in 1..Len(b) : /\ os[i] \in {"TIMEOUT", "MEMOUT", "ERROR"}
                                     /\ (k = 0 \/ i < k)}
         IN  IF E # {}
             THEN [raised |-> "EvaluatorError", successor |-> succ,
                   outcome |-> [i \in 1..Len(b) |->
                                  IF i <= Min(E) THEN os[i] ELSE "none"]]
             ELSE [raised |-> "none",
                   successor |-> IF k = 0 THEN None ELSE b[k],
                   outcome |-> [i \in 1..Len(b) |->
                                  IF k = 0 \/ i <= k THEN os[i] ELSE "none"]]

\* LocalEnvironment.submit keeping the first successor whatever the verdict of
\* the evaluator is.
LocalEnvironment_submit_ignores_verdict(succ, b, os) ==
    IF succ # None
    THEN [raised |-> "AssertionError", successor |-> succ,
          outcome |-> [i \in 1..Len(b) |-> "none"]]
    ELSE [raised |-> "none",
          successor |-> IF b = <<>> THEN None ELSE b[1],
          outcome |-> [i \in 1..Len(b) |-> IF i = 1 THEN os[i] ELSE "none"]]

\* LocalEnvironment.submit on the batch b, where os[i] is the outcome the
\* evaluation of b[i] has if it is run.  The result names the exception raised,
\* the new value of self.successor and the outcomes of the evaluations that
\* were run ("none" for a successor that was not evaluated).
LocalEnvironment_submit(succ, b, os) ==
    IF succ # None
    THEN [raised |-> "AssertionError", successor |-> succ,
          outcome |-> [i \in 1..Len(b) |-> "none"]]
    ELSE LET k == FirstSuccess(os)
         IN  [raised |-> "none",
              successor |-> IF k = 0 THEN None ELSE b[k],
              outcome |-> [i \in 1..Len(b) |->
                             IF k = 0 \/ i <= k THEN os[i] ELSE "none"]]

\* LocalEnvironment.wait_until_finished: pass.
LocalEnvironment_wait_until_finished(succ) ==
    [raised |-> "none", successor |-> succ]

\* LocalEnvironment.get_improving_successor clearing the field before it
\* reads it.
LocalEnvironment_get_improving_successor_clears_first(succ) ==
    [raised |-> "none", result |-> None, successor |-> None]

\* LocalEnvironment.get_improving_successor.
LocalEnvironment_get_improving_successor(succ) ==
    [raised |-> "none", result |-> succ, successor |-> None]

----------------------------------------------------------------------------
\* SlurmEnvironment (environments.py, lines 145-527).

\* EvaluationTask.__init__
EvaluationTask(succ, task_id, run_dir) ==
    [successor |-> succ, task_id |-> task_id, run_dir |-> run_dir,
     slurm_status |-> "PENDING"]

\* EvaluationTaskBatch.__init__
EvaluationTaskBatch(job_id, tasks) == [job_id |-> job_id, tasks |-> tasks]

\* _build_batch_directories counting the tasks from 1.
build_batch_directories_one_based(b, bid) ==
    [i \in 1..Len(b) |-> EvaluationTask(b[i], i, <<bid, i>>)]

\* SlurmEnvironment._build_batch_directories: task i (0-based) of batch number
\* bid gets the run directory batch_<bid>/<i>.
build_batch_directories(b, bid) ==
    [i \in 1..Len(b) |-> EvaluationTask(b[i], i - 1, <<bid, i - 1>>)]

\* The loop of _build_batch_directories over the batch b (lines 399-404) when
\* the run directories in ds exist: run_dir.mkdir fails for the first run
\* directory that exists already (exist_ok=False; the source spells the
\* keyword exists_ok), after the run directories of the tasks before it were
\* made.  The result is the position of that task, or 0, and the run
\* directories that exist afterwards.
make_run_dirs(b, bid, ds) ==
    LET E == {i \in 1..Len(b) : <<bid, i - 1>> \in ds}
        k == IF E = {} THEN 0 ELSE Min(E)
    IN  [exists |-> k,
         dirs |-> ds \cup {<<bid, i - 1>> : i \in 1..(IF k = 0 THEN Len(b) ELSE k - 1)}]

\* The id the scheduler gives to its n-th array job, as sbatch prints it.
JobId(n) == ToString(1000 + n)

\* What sbatch can answer: the command fails, it prints something that does
\* not start with "Submitted batch job ", it prints that line with the id of
\* the job, or it prints these words without digits after them.
SbatchAnswers == {"CalledProcessError", "garbage", "submitted", "submitted_no_id"}

\* match.group(1) of re.match(r"Submitted batch job (\d*)", output), line 324:
\* \d* matches no digit as well, so an output that starts with the words
\* matches whatever comes after them and the group is then the empty string.
\* The result is None when the output does not match.
sbatch_job_id(answer, njobs) ==
    IF answer = "submitted" THEN JobId(njobs + 1)
    ELSE IF answer = "submitted_no_id" THEN ""
    ELSE "no match"

\* SlurmEnvironment.submit counting only the batches the scheduler accepted.
SlurmEnvironment_submit_counts_accepted(job, bid, b, answer, njobs, ds) ==
    IF job # NoJob
    THEN [raised |-> "AssertionError", current_job |-> job, batch_id |-> bid,
          dirs |-> ds]
    ELSE LET made == make_run_dirs(b, bid + 1, ds)
             tasks == build_batch_directories(b, bid + 1)
         IN  IF made.exists # 0
             THEN [raised |-> "FileExistsError", current_job |-> job,
                   batch_id |-> bid, dirs |-> made.dirs]
             ELSE IF answer = "CalledProcessError"
                     \/ sbatch_job_id(answer, njobs) = "no match"
             THEN [raised |-> "SubmissionError", current_job |-> job,
                   batch_id |-> bid, dirs |-> made.dirs]
             ELSE [raised |-> "none",
                   current_job |->
                       EvaluationTaskBatch(sbatch_job_id(answer, njobs), tasks),
                   batch_id |-> bid + 1, dirs |-> made.dirs]

\* SlurmEnvironment.submit on the batch b with the answer of sbatch, when the
\* run directories in ds exist.
SlurmEnvironment_submit(job, bid, b, answer, njobs, ds) ==
    IF job # NoJob
    THEN [raised |-> "AssertionError", current_job |-> job, batch_id |-> bid,
          dirs |-> ds]
    ELSE LET made == make_run_dirs(b, bid + 1, ds)
             tasks == build_batch_directories(b, bid + 1)
         IN  IF made.exists # 0
             THEN [raised |-> "FileExistsError", current_job |-> job,
                   batch_id |-> bid + 1, dirs |-> made.dirs]
             ELSE IF answer = "CalledProcessError"
                     \/ sbatch_job_id(answer, njobs) = "no match"
             THEN [raised |-> "SubmissionError", current_job |-> job,
                   batch_id |-> bid + 1, dirs |-> made.dirs]
             ELSE [raised |-> "none",
                   current_job |->
                       EvaluationTaskBatch(sbatch_job_id(answer, njobs), tasks),
                   batch_id |-> bid + 1, dirs |-> made.dirs]

\* What sacct can answer: the command fails, a line of its output does not
\* have the expected format, its output has no line for some task of the
\* batch, or it lists the state of every task.
SacctAnswers == {"CalledProcessError", "malformed", "missing_task", "ok"}

\* How _update_slurm_status (lines 477-508) ends on the answer of sacct for
\* the job with the id job_id.  A line of the expected format carries the id
\* of a job of the scheduler, which the assertion of line 491 compares with
\* job_id.  The lookup of a task without a line raises KeyError, which the
\* handler of line 504 (except IndexError) does not catch.
update_slurm_status_raises(answer, job_id) ==
    IF answer = "CalledProcessError" THEN "PollingError"
    ELSE IF answer = "malformed" THEN "PollingError"
    ELSE IF job_id = "" THEN "AssertionError"
    ELSE IF answer = "missing_task" THEN "KeyError"
    ELSE "none"

\* SlurmEnvironment._update_slurm_status, when sacct lists every task: task
\* task_id gets the state the scheduler has for it.
update_slurm_status(tasks, sc) ==
    [i \in 1..Len(tasks) |->
        [tasks[i] EXCEPT !.slurm_status = sc[tasks[i].task_id + 1]]]

\* poll_scan raising for the first task in a critical state without a look
\* at the number of busy tasks before it.
RECURSIVE poll_scan_ignores_busy(_, _, _, _)
poll_scan_ignores_busy(tasks, i, num_busy_tasks, nd) ==
    IF i > Len(tasks) THEN 0
    ELSE IF tasks[i].slurm_status \in DONE_STATES
         THEN poll_scan_ignores_busy(tasks, i + 1, num_busy_tasks, nd)
    ELSE IF tasks[i].slurm_status \in BUSY_STATES
         THEN poll_scan_ignores_busy(tasks, i + 1, num_busy_tasks + 1, nd)
    ELSE IF ~nd
         THEN i
    ELSE poll_scan_ignores_busy(tasks, i + 1, num_busy_tasks, nd)

\* The classification loop of _poll_job (lines 431-445).  The result is the
\* position of the task for which EvaluatorError is raised, or 0.
RECURSIVE poll_scan(_, _, _, _)
poll_scan(tasks, i, num_busy_tasks, nd) ==
    IF i > Len(tasks) THEN 0
    ELSE IF tasks[i].slurm_status \in DONE_STATES
         THEN poll_scan(tasks, i + 1, num_busy_tasks, nd)
    ELSE IF tasks[i].slurm_status \in BUSY_STATES
         THEN poll_scan(tasks, i + 1, num_busy_tasks + 1, nd)
    ELSE IF num_busy_tasks = 0 /\ ~nd
         THEN i
    ELSE poll_scan(tasks, i + 1, num_busy_tasks, nd)

\* The positions (0-based) of the tasks in a critical state, in task order.
indices_critical(tasks) ==
    LET crit == SelectSeq(tasks, LAMBDA t :
                    t.slurm_status \notin (DONE_STATES \cup BUSY_STATES))
    IN  [i \in 1..Len(crit) |-> crit[i].task_id]

\* poll_job polling on while a task is in a critical state.
poll_job_waits_for_critical(tasks, nd) ==
    LET busy == {i \in 1..Len(tasks) : tasks[i].slurm_status \in BUSY_STATES}
    IN  IF poll_scan(tasks, 1, 0, nd) # 0 THEN "EvaluatorError"
        ELSE IF busy # {} THEN "continue"
        ELSE IF Len(indices_critical(tasks)) > 0 THEN "continue"
        ELSE "return"

\* poll_job without the check for busy tasks: the loop ends although a task
\* is still pending or running.
poll_job_ignores_busy(tasks, nd) ==
    IF poll_scan(tasks, 1, 0, nd) # 0 THEN "EvaluatorError"
    ELSE IF Len(indices_critical(tasks)) > 0 THEN "TaskError"
    ELSE "return"

\* One iteration of the loop of _poll_job on the updated tasks:
\* "EvaluatorError", "continue", "TaskError" or "return".
poll_job(tasks, nd) ==
    LET busy == {i \in 1..Len(tasks) : tasks[i].slurm_status \in BUSY_STATES}
    IN  IF poll_scan(tasks, 1, 0, nd) # 0 THEN "EvaluatorError"
        ELSE IF busy # {} THEN "continue"
        ELSE IF Len(indices_critical(tasks)) > 0 THEN "TaskError"
        ELSE "return"

\* remove_critical_tasks comparing the one-based position of a task with the
\* zero-based indices of the critical tasks.
remove_critical_tasks_one_based(tasks, ic) ==
    LET keep == {i \in 1..Len(tasks) : \A j \in 1..Len(ic) : ic[j] # i}
        RECURSIVE filter(_)
        filter(i) == IF i > Len(tasks) THEN <<>>
                     ELSE IF i \in keep THEN <<tasks[i]>> \o filter(i + 1)
                     ELSE filter(i + 1)
    IN  filter(1)

\* TaskError.remove_critical_tasks (tools.py, lines 151-157).
remove_critical_tasks(tasks, ic) ==
    LET keep == {i \in 1..Len(tasks) :
                    \A j \in 1..Len(ic) : ic[j] # i - 1}
        RECURSIVE filter(_)
        filter(i) == IF i > Len(tasks) THEN <<>>
                     ELSE IF i \in keep THEN <<tasks[i]>> \o filter(i + 1)
                     ELSE filter(i + 1)
    IN  filter(1)

\* TaskError.remove_tasks_after_first_critical (tools.py, lines 159-173).
remove_tasks_after_first_critical(tasks, ic) == Take(tasks, ic[1])

\* SlurmEnvironment.wait_until_finished once _poll_job ended with `ended`
\* ("return" or an exception) on the updated tasks: the exception that leaves
\* wait_until_finished, the in-flight batch and the flag self.critical.
SlurmEnvironment_wait_until_finished(job, crit, tasks, ended, nd) ==
    LET ic == indices_critical(tasks)
    IN  IF ended # "TaskError"
        THEN [raised |-> IF ended = "return" THEN "none" ELSE ended,
              current_job |-> [job EXCEPT !.tasks = tasks], critical |-> crit]
        ELSE IF nd
        THEN LET left == remove_critical_tasks(tasks, ic)
             IN  [raised |-> "none",
                  current_job |-> [job EXCEPT !.tasks = left],
                  critical |-> IF left = <<>> THEN TRUE ELSE crit]
        ELSE LET left == remove_tasks_after_first_critical(tasks, ic)
             IN  IF left = <<>>
                 THEN [raised |-> "TaskError", current_job |-> NoJob,
                       critical |-> crit]
                 ELSE [raised |-> "none",
                       current_job |-> [job EXCEPT !.tasks = left],
                       critical |-> crit]

\* collect taking every exit code that can be read for a success.
RECURSIVE collect_any_exit_code(_, _, _, _, _)
collect_any_exit_code(tasks, i, seen, fs, nd) ==
    IF i > Len(tasks)
    THEN [kind |-> "walked", successor |-> None, warned |-> FALSE]
    ELSE IF seen[tasks[i].task_id + 1]
         THEN [kind |-> "walked", successor |-> tasks[i].successor,
               warned |-> FALSE]
    ELSE IF nd
         THEN [collect_any_exit_code(tasks, i + 1, seen, fs, nd)
                  EXCEPT !.warned = TRUE]
    ELSE [kind |-> "return", successor |-> None, warned |-> TRUE]

\* The loop of get_improving_successor over the tasks (lines 361-383), where
\* seen[d] says whether _wait_for_filesystem finds exit_code of the task with
\* id d-1 and fs[d] is the content of that file.  kind is "walked" when the
\* loop ended (by break or at the end of the list) and "return" when the
\* function returned from inside the loop; warned says whether a warning
\* about a missing result file was logged.
RECURSIVE collect(_, _, _, _, _)
collect(tasks, i, seen, fs, nd) ==
    IF i > Len(tasks)
    THEN [kind |-> "walked", successor |-> None, warned |-> FALSE]
    ELSE IF seen[tasks[i].task_id + 1]
         THEN IF parse_exit_code(fs[tasks[i].task_id + 1]) = 0
              THEN [kind |-> "walked", successor |-> tasks[i].successor,
                    warned |-> FALSE]
              ELSE collect(tasks, i + 1, seen, fs, nd)
    ELSE IF nd
         THEN [collect(tasks, i + 1, seen, fs, nd) EXCEPT !.warned = TRUE]
    ELSE [kind |-> "return", successor |-> None, warned |-> TRUE]

\* get_improving_successor leaving self.critical set when it releases a batch
\* whose tasks all ended in a critical state.
SlurmEnvironment_get_improving_successor_keeps_critical(job, crit, seen, fs, nd) ==
    IF job = NoJob
    THEN [raised |-> "AssertionError", result |-> None, warned |-> FALSE,
          current_job |-> job, critical |-> crit]
    ELSE IF crit
    THEN [raised |-> "none", result |-> None, warned |-> FALSE,
          current_job |-> NoJob, critical |-> crit]
    ELSE LET w == collect(job.tasks, 1, seen, fs, nd)
         IN  IF w.kind = "return"
             THEN [raised |-> "none", result |-> None, warned |-> w.warned,
                   current_job |-> job, critical |-> crit]
             ELSE [raised |-> "none", result |-> w.successor,
                   warned |-> w.warned,
                   current_job |-> NoJob, critical |-> crit]

\* SlurmEnvironment.get_improving_successor.
SlurmEnvironment_get_improving_successor(job, crit, seen, fs, nd) ==
    IF job = NoJob
    THEN [raised |-> "AssertionError", result |-> None, warned |-> FALSE,
          current_job |-> job, critical |-> crit]
    ELSE IF crit
    THEN [raised |-> "none", result |-> None, warned |-> FALSE,
          current_job |-> NoJob, critical |-> FALSE]
    ELSE LET w == collect(job.tasks, 1, seen, fs, nd)
         IN  IF w.kind = "return"
             THEN [raised |-> "none", result |-> None, warned |-> w.warned,
                   current_job |-> job, critical |-> crit]
             ELSE [raised |-> "none", result |-> w.successor,
                   warned |-> w.warned,
                   current_job |-> NoJob, critical |-> crit]

----------------------------------------------------------------------------
\* The calls of the environment operations, for either caller.  Each sets the
\* fields of the environment, the world and `call`; the caller sets the rest.

\* environment.submit(b, evaluator_path)
EnvSubmit(b) ==
    \/ /\ envKind = "local"
       /\ \E os \in [1..Len(b) -> Outcomes] :
            /\ \A i \in 1..Len(b) : os[i] \in Verdicts(evaluator, b[i].state)
            /\ LET r == LocalEnvironment_submit(successor, b, os)
               IN  /\ successor' = r.successor
                   /\ call' = Call("submit", r.raised, None, FALSE, pc)
                   /\ IF r.raised = "none"
                      THEN /\ batch' = b
                           /\ outcome' = r.outcome
                      ELSE UNCHANGED <<batch, outcome>>
       /\ UNCHANGED <<slurmVars, sched, files, first_success, jobs, dirs>>
    \/ /\ envKind = "slurm"
       /\ \E answer \in SbatchAnswers :
            LET r == SlurmEnvironment_submit(current_job, batch_id, b, answer,
                                             jobs, dirs)
            IN  /\ current_job' = r.current_job
                /\ batch_id' = r.batch_id
                /\ dirs' = r.dirs
                /\ call' = Call("submit", r.raised, None, FALSE, pc)
                /\ IF r.raised = "none"
                   THEN /\ batch' = b
                        /\ outcome' = [i \in 1..Len(b) |-> "none"]
                        /\ sched' = [i \in 1..Len(b) |-> "PENDING"]
                        /\ files' = [i \in 1..Len(b) |-> NoFile]
                        /\ first_success' = 0
                        /\ jobs' = jobs + 1
                   ELSE UNCHANGED <<batch, outcome, sched, files, first_success,
                                    jobs>>
       /\ UNCHANGED <<localVars, critical>>

\* environment.wait_until_finished() up to its first suspension: the local
\* environment returns at once, the slurm environment starts to poll.
EnvWait ==
    \/ /\ envKind = "local"
       /\ LET r == LocalEnvironment_wait_until_finished(successor)
          IN  /\ successor' = r.successor
              /\ call' = Call("wait_until_finished", r.raised, None, FALSE, pc)
       /\ UNCHANGED <<slurmVars, worldVars>>
    \/ /\ envKind = "slurm"
       /\ call' = Call("wait_until_finished",
                       IF current_job = NoJob THEN "AssertionError" ELSE "blocked",
                       None, FALSE, pc)
       /\ UNCHANGED <<localVars, slurmVars, worldVars>>

\* One iteration of the polling loop inside wait_until_finished, and the rest
\* of wait_until_finished when the loop ends.  The caller is blocked in the
\* loop and every iteration overwrites the slurm_status of every task before
\* it reads any, so the statuses an iteration that goes on polling leaves
\* behind are never read: the model keeps those of the iteration that ends
\* the loop.
\* EnvPollWith(answer) is the iteration in which sacct gives this answer.
EnvPollWith(answer) ==
    /\ envKind = "slurm"
    /\ pc = "polling"
    /\ IF update_slurm_status_raises(answer, current_job.job_id) # "none"
       THEN /\ call' = [call EXCEPT !.raised =
                         update_slurm_status_raises(answer, current_job.job_id)]
            /\ UNCHANGED slurmVars
       ELSE LET tasks == update_slurm_status(current_job.tasks, sched)
                ended == poll_job(tasks, nondet)
            IN  IF ended = "continue"
                THEN UNCHANGED <<slurmVars, call>>
                ELSE LET r == SlurmEnvironment_wait_until_finished(
                                  current_job, critical, tasks, ended, nondet)
                     IN  /\ current_job' = r.current_job
                         /\ critical' = r.critical
                         /\ call' = [call EXCEPT !.raised = r.raised]
                         /\ UNCHANGED batch_id
    /\ pc' = IF call'.raised = "blocked" THEN "polling"
             ELSE IF call'.raised = "none" THEN "waited"
             ELSE IF caller = "search" THEN "aborted"
             ELSE call.phase
    /\ UNCHANGED <<cfgVars, waitVars, toolVars, drvVars, localVars, worldVars>>

EnvPoll == \E answer \in SacctAnswers : EnvPollWith(answer)

\* environment.get_improving_successor()
EnvGet ==
    \/ /\ envKind = "local"
       /\ LET r == LocalEnvironment_get_improving_successor(successor)
          IN  /\ successor' = r.successor
              /\ call' = Call("get_improving_successor", r.raised, r.result,
                               FALSE, pc)
       /\ UNCHANGED <<slurmVars, worldVars>>
    \/ /\ envKind = "slurm"
       /\ \E seen \in [1..Len(batch) -> BOOLEAN] :
            /\ \A i \in 1..Len(batch) : seen[i] => files[i] # NoFile
            /\ LET r == SlurmEnvironment_get_improving_successor(
                            current_job, critical, seen, files, nondet)
               IN  /\ current_job' = r.current_job
                   /\ critical' = r.critical
                   /\ call' = Call("get_improving_successor", r.raised, r.result,
                                    r.warned, pc)
       /\ UNCHANGED <<localVars, batch_id, worldVars>>

----------------------------------------------------------------------------
\* The search driver: greedy descent over the pipeline of successor generators.

\* Search_submit of a driver for which a SubmissionError is fatal in either
\* mode.
Search_submit_always_fatal ==
    /\ caller = "search"
    /\ pc = "idle"
    /\ gen <= Len(pipeline)
    /\ stream # <<>>
    /\ EnvSubmit(Take(stream, batch_size))
    /\ stream' = Drop(stream, batch_size)
    /\ pc' = IF call'.raised = "none" THEN "submitted" ELSE "aborted"
    /\ UNCHANGED <<cfgVars, waitVars, toolVars, current, gen, commits, passed_over>>

\* The next batch of the current generator's stream is submitted.
Search_submit ==
    /\ caller = "search"
    /\ pc = "idle"
    /\ gen <= Len(pipeline)
    /\ stream # <<>>
    /\ EnvSubmit(Take(stream, batch_size))
    /\ stream' = Drop(stream, batch_size)
    /\ pc' = IF call'.raised = "none" THEN "submitted"
             ELSE IF call'.raised = "SubmissionError" /\ nondet THEN "idle"
             ELSE "aborted"
    /\ passed_over' = IF call'.raised = "SubmissionError" /\ nondet
                      THEN "here" ELSE passed_over
    /\ UNCHANGED <<cfgVars, waitVars, toolVars, current, gen, commits>>

\* Search_wait of a driver that submits the next batch without collecting
\* the result of this one.
Search_wait_skips_collect ==
    /\ caller = "search"
    /\ pc = "submitted"
    /\ EnvWait
    /\ pc' = IF call'.raised = "none" THEN "idle"
             ELSE IF call'.raised = "blocked" THEN "polling"
             ELSE "aborted"
    /\ UNCHANGED <<cfgVars, waitVars, toolVars, drvVars>>

\* The driver waits for the batch.
Search_wait ==
    /\ caller = "search"
    /\ pc = "submitted"
    /\ EnvWait
    /\ pc' = IF call'.raised = "none" THEN "waited"
             ELSE IF call'.raised = "blocked" THEN "polling"
             ELSE "aborted"
    /\ UNCHANGED <<cfgVars, waitVars, toolVars, drvVars>>

\* Search_get of a driver that goes on with the generator that produced the
\* winner instead of the first one.
Search_get_keeps_generator ==
    /\ caller = "search"
    /\ pc = "waited"
    /\ EnvGet
    /\ IF call'.raised # "none"
       THEN /\ pc' = "aborted"
            /\ UNCHANGED drvVars
       ELSE /\ pc' = "idle"
            /\ IF call'.result # None
               THEN /\ current' = call'.result.state
                    /\ gen' = gen
                    /\ stream' = get_successors(pipeline[gen], call'.result.state)
                    /\ commits' = Append(commits, call'.result)
                    /\ UNCHANGED passed_over
               ELSE UNCHANGED drvVars
    /\ UNCHANGED <<cfgVars, waitVars, toolVars>>

\* The driver collects the result of the batch and commits to the winner.
Search_get ==
    /\ caller = "search"
    /\ pc = "waited"
    /\ EnvGet
    /\ IF call'.raised # "none"
       THEN /\ pc' = "aborted"
            /\ UNCHANGED drvVars
       ELSE LET skipped == /\ envKind = "slurm"
                            /\ \/ call'.warned
                               \/ Len(current_job.tasks) < Len(batch)
            IN  /\ pc' = "idle"
                /\ IF call'.result # None
                   THEN /\ current' = call'.result.state
                        /\ gen' = 1
                        /\ stream' = get_successors(pipeline[1], call'.result.state)
                        /\ commits' = Append(commits, call'.result)
                        /\ passed_over' = IF skipped \/ passed_over = "here"
                                          THEN "before" ELSE passed_over
                   ELSE /\ passed_over' = IF skipped THEN "here" ELSE passed_over
                        /\ UNCHANGED <<current, gen, stream, commits>>
    /\ UNCHANGED <<cfgVars, waitVars, toolVars>>

\* The stream of the current generator is used up without an improvement: the
\* driver goes on to the next generator, or ends after the last one.
Search_advance ==
    /\ caller = "search"
    /\ pc = "idle"
    /\ gen <= Len(pipeline)
    /\ stream = <<>>
    /\ gen' = gen + 1
    /\ stream' = IF gen + 1 <= Len(pipeline)
                 THEN get_successors(pipeline[gen + 1], current)
                 ELSE <<>>
    /\ pc' = IF gen + 1 <= Len(pipeline) THEN "idle" ELSE "done"
    /\ UNCHANGED <<cfgVars, waitVars, toolVars, current, commits, passed_over, call, localVars,
                   slurmVars, worldVars>>

----------------------------------------------------------------------------
\* A client that calls the operations of an environment in any order.

Client_submit ==
    /\ caller = "any"
    /\ pc # "polling"
    /\ batch_id < MaxSubmits
    /\ EnvSubmit(Take(get_successors("smaller", MaxN), batch_size))
    /\ pc' = IF call'.raised = "none" THEN "submitted" ELSE pc
    /\ UNCHANGED <<cfgVars, waitVars, toolVars, drvVars>>

Client_wait ==
    /\ caller = "any"
    /\ pc # "polling"
    /\ EnvWait
    /\ pc' = IF call'.raised = "blocked" THEN "polling"
             ELSE IF call'.raised = "none" /\ pc = "submitted" THEN "waited"
             ELSE pc
    /\ UNCHANGED <<cfgVars, waitVars, toolVars, drvVars>>

Client_get ==
    /\ caller = "any"
    /\ pc # "polling"
    /\ EnvGet
    /\ pc' = IF call'.raised = "none" THEN "idle" ELSE pc
    /\ UNCHANGED <<cfgVars, waitVars, toolVars, drvVars>>

----------------------------------------------------------------------------
\* The scheduler and the compute nodes.

Running == pc \notin {"done", "aborted"} /\ envKind = "slurm"

\* The scheduler starts a pending task, or resumes one it had put aside.
Sched_start(i) ==
    /\ Running
    /\ sched[i] \in {"PENDING", "REQUEUED", "SUSPENDED"}
    /\ sched' = [sched EXCEPT ![i] = "RUNNING"]
    /\ UNCHANGED <<cfgVars, waitVars, toolVars, drvVars, pc, call, localVars, slurmVars,
                   batch, outcome, files, first_success, jobs, dirs>>

\* The scheduler suspends or requeues a running task.
Sched_hold(i) ==
    /\ Running
    /\ sched[i] = "RUNNING"
    /\ \E st \in {"REQUEUED", "SUSPENDED"} : sched' = [sched EXCEPT ![i] = st]
    /\ UNCHANGED <<cfgVars, waitVars, toolVars, drvVars, pc, call, localVars, slurmVars,
                   batch, outcome, files, first_success, jobs, dirs>>

\* A running task evaluates its state, writes exit_code and completes.
Task_complete(i) ==
    /\ Running
    /\ sched[i] = "RUNNING"
    /\ \E o \in Verdicts(evaluator, batch[i].state) :
         /\ outcome' = [outcome EXCEPT ![i] = o]
         /\ files' = [files EXCEPT ![i] = ExitCodeText(o)]
    /\ sched' = [sched EXCEPT ![i] = "COMPLETED"]
    /\ first_success' = IF first_success = 0 /\ outcome'[i] = "SUCCESS"
                        THEN i ELSE first_success
    /\ UNCHANGED <<cfgVars, waitVars, toolVars, drvVars, pc, call, localVars, slurmVars, batch, jobs,
                   dirs>>

\* A task ends in a critical state: a pending task is cancelled; a running
\* task fails, before or after its evaluation wrote exit_code.
Task_critical(i) ==
    /\ Running
    /\ \/ /\ sched[i] = "PENDING"
          /\ sched' = [sched EXCEPT ![i] = "CANCELLED"]
          /\ UNCHANGED <<outcome, files>>
       \/ /\ sched[i] = "RUNNING"
          /\ sched' = [sched EXCEPT ![i] = "FAILED"]
          /\ \/ UNCHANGED <<outcome, files>>
             \/ \E o \in Verdicts(evaluator, batch[i].state) \cap {"SUCCESS", "FAILURE"} :
                  /\ outcome' = [outcome EXCEPT ![i] = o]
                  /\ files' = [files EXCEPT ![i] = ExitCodeText(o)]
    /\ UNCHANGED <<cfgVars, waitVars, toolVars, drvVars, pc, call, localVars, slurmVars, batch,
                   first_success, jobs, dirs>>

----------------------------------------------------------------------------
\* SlurmEnvironment._wait_for_filesystem (environments.py, lines 387-394), one
\* step per probe of the filesystem and per sleep.  Time is counted in
\* seconds since the call; a probe takes no time and a sleep takes
\* FILESYSTEM_TIME_INTERVAL seconds.

\* When a path can become visible: within the first interval, or from the
\* last interval before the limit on; FILESYSTEM_TIME_LIMIT + 1 stands for
\* every later time and for never.
VisibleTimes ==
    {t \in 0..(FILESYSTEM_TIME_LIMIT + 1) :
        t <= FILESYSTEM_TIME_INTERVAL
        \/ t >= FILESYSTEM_TIME_LIMIT - FILESYSTEM_TIME_INTERVAL}

\* os.path.exists(path) at the current time.
exists(path) == visible_at[path] <= clock

\* attempts = int(FILESYSTEM_TIME_LIMIT / FILESYSTEM_TIME_INTERVAL)
attempts == FILESYSTEM_TIME_LIMIT \div FILESYSTEM_TIME_INTERVAL

InitWait ==
    /\ visible_at = <<>>
    /\ paths = <<>>
    /\ attempt = 0
    /\ probes = 0
    /\ clock = 0
    /\ wait_pc = "idle"
    /\ wait_result = FALSE

engineVars == <<cfgVars, drvVars, pc, call, localVars, slurmVars, worldVars>>

\* self._wait_for_filesystem(*paths)
WaitForFilesystem_call ==
    /\ wait_pc = "idle"
    /\ \E n \in 1..MaxPaths : \E v \in [1..n -> VisibleTimes] :
         /\ visible_at' = v
         /\ paths' = [i \in 1..n |-> i]
    /\ attempt' = 0
    /\ probes' = 0
    /\ clock' = 0
    /\ wait_pc' = "loop"
    /\ UNCHANGED <<wait_result, engineVars, toolVars>>

\* An iteration of the loop up to the sleep (lines 389-392).
WaitForFilesystem_probe ==
    /\ wait_pc = "loop"
    /\ attempt < attempts
    /\ attempt' = attempt + 1
    /\ probes' = probes + 1
    /\ paths' = SelectSeq(paths, LAMBDA path : ~exists(path))
    /\ IF paths' = <<>>
       THEN wait_pc' = "returned" /\ wait_result' = TRUE
       ELSE wait_pc' = "sleep" /\ UNCHANGED wait_result
    /\ UNCHANGED <<visible_at, clock, engineVars, toolVars>>

\* time.sleep(self.FILESYSTEM_TIME_INTERVAL) (line 393)
WaitForFilesystem_sleep ==
    /\ wait_pc = "sleep"
    /\ clock' = clock + FILESYSTEM_TIME_INTERVAL
    /\ wait_pc' = "loop"
    /\ UNCHANGED <<visible_at, paths, attempt, probes, wait_result, engineVars, toolVars>>

\* return False after the last iteration (line 394)
WaitForFilesystem_give_up ==
    /\ wait_pc = "loop"
    /\ attempt >= attempts
    /\ wait_pc' = "returned"
    /\ wait_result' = FALSE
    /\ UNCHANGED <<visible_at, paths, attempt, probes, clock, engineVars, toolVars>>

----------------------------------------------------------------------------
\* tools.py: logging, resource limits and the runners of a command; and
\* SlurmEnvironment._get_memory_in_kb (environments.py, lines 513-527).
\* An optional value is a sequence: <<>> for None, <<v>> for the value v.

\* logging.critical(...): with the handlers of configure_logging,
\* ErrorAbortHandler.emit writes the record and calls sys.exit("aborting")
\* (tools.py, lines 45-53); with the handlers logging has without it the
\* record is written and the caller goes on.
logging_critical(handler) == IF handler THEN "SystemExit" ELSE "none"

\* The characters of the memory strings: digits, the suffixes in either case,
\* a character that is neither, and the newline.
Digits == {"0", "1", "2"}
Suffixes == {"k", "K", "m", "M", "g", "G"}
MemoryChars == Digits \cup Suffixes \cup {"x", "\n"}
MemoryStrings == UNION {[1..n -> MemoryChars] : n \in 0..MaxMemLen}

\* str.lower() on a character.
lower(c) ==
    CASE c = "K" -> "k"
      [] c = "M" -> "m"
      [] c = "G" -> "g"
      [] OTHER -> c

\* int(s) for a string of digits.
RECURSIVE int(_)
int(s) ==
    IF s = <<>> THEN 0
    ELSE LET c == s[Len(s)]
             v == IF c = "0" THEN 0 ELSE IF c = "1" THEN 1 ELSE 2
         IN  int(SubSeq(s, 1, Len(s) - 1)) * 10 + v

\* re.match(r"^(\d+)(k|m|g)?$", limit, flags=re.I), line 514: \d+ takes the
\* longest run of digits at the start, (k|m|g)? one suffix character in
\* either case if there is one, and $ matches at the end of the string and
\* also before a newline that is the last character of the string.
memory_match(limit) ==
    LET runs == {d \in 0..Len(limit) : \A i \in 1..d : limit[i] \in Digits}
        d == CHOOSE x \in runs : \A y \in runs : y <= x
        rest == Drop(limit, d)
        has_suffix == rest # <<>> /\ rest[1] \in Suffixes
        tail == IF has_suffix THEN Drop(rest, 1) ELSE rest
    IN  IF d >= 1 /\ tail \in {<<>>, <<"\n">>}
        THEN [matched |-> TRUE, group1 |-> Take(limit, d),
              group2 |-> IF has_suffix THEN <<rest[1]>> ELSE <<>>]
        ELSE [matched |-> FALSE, group1 |-> <<>>, group2 |-> <<>>]

\* SlurmEnvironment._get_memory_in_kb(limit).  When the string does not
\* match, logging.critical is called and then match.group(1) is evaluated on
\* None (line 517), which raises AttributeError if logging.critical came back.
get_memory_in_kb(limit, handler) ==
    LET match == memory_match(limit)
    IN  IF ~match.matched
        THEN [raised |-> IF logging_critical(handler) # "none"
                         THEN logging_critical(handler) ELSE "AttributeError",
              value |-> <<>>]
        ELSE LET memory == int(match.group1)
                 suffix == IF match.group2 = <<>> THEN "None"
                           ELSE lower(match.group2[1])
             IN  [raised |-> "none",
                  value |-> <<IF suffix = "k" THEN memory
                              ELSE IF suffix \in {"None", "m"} THEN memory * 1024
                              ELSE memory * 1024 * 1024>>]

\* Resource limits are pairs <<soft, hard>>; RLIM_INFINITY is no limit.
RLIM_INFINITY == -1
Exceeds(a, b) == b # RLIM_INFINITY /\ (a = RLIM_INFINITY \/ a > b)

\* The limits a process can have when it starts a run: each of RLIMIT_CPU and
\* RLIMIT_AS is unlimited or at a value that admits some of the limits of
\* the runs and not others; core dumps are unlimited or off.
ParentLimits ==
    [RLIMIT_CPU : {<<RLIM_INFINITY, RLIM_INFINITY>>, <<MaxTime + 4, MaxTime + 4>>},
     RLIMIT_AS : {<<RLIM_INFINITY, RLIM_INFINITY>>,
                  <<(MaxMem - 1) * 1024 * 1024, (MaxMem - 1) * 1024 * 1024>>},
     RLIMIT_CORE : {<<RLIM_INFINITY, RLIM_INFINITY>>, <<0, 0>>}]

\* resource.setrlimit(kind, (soft, hard)) on the limit a process has for this
\* kind: refused with ValueError when the soft limit is above the hard limit
\* or when the hard limit is to be raised by a process that may not do so.
setrlimit(limit, soft, hard, privileged) ==
    IF Exceeds(soft, hard) \/ (Exceeds(hard, limit[2]) /\ ~privileged)
    THEN [raised |-> "ValueError", limit |-> limit]
    ELSE [raised |-> "none", limit |-> <<soft, hard>>]

\* _set_limit(kind, soft_limit, hard_limit), tools.py, lines 185-192.
set_limit(limits, kind, soft_limit, hard_limit, privileged, handler) ==
    LET r == setrlimit(limits[kind], soft_limit, hard_limit, privileged)
    IN  IF r.raised = "none"
        THEN [raised |-> "none", limits |-> [limits EXCEPT ![kind] = r.limit]]
        ELSE [raised |-> logging_critical(handler), limits |-> limits]

\* _prepare_call of Run.start (tools.py, lines 253-264), which the child
\* runs between fork and exec, on the limits it inherited.
Run_prepare_call(limits, time_limit, memory_limit, privileged, handler) ==
    LET cpu == IF time_limit # <<>>
               THEN set_limit(limits, "RLIMIT_CPU", time_limit[1],
                              time_limit[1] + 5, privileged, handler)
               ELSE [raised |-> "none", limits |-> limits]
        mem == IF cpu.raised # "none" THEN cpu
               ELSE IF memory_limit # <<>>
               THEN LET hard_mem_limit == cpu.limits.RLIMIT_AS[2]
                    IN  set_limit(cpu.limits, "RLIMIT_AS",
                                  memory_limit[1] * 1024 * 1024, hard_mem_limit,
                                  privileged, handler)
               ELSE cpu
    IN  IF mem.raised # "none" THEN mem
        ELSE set_limit(mem.limits, "RLIMIT_CORE", 0, 0, privileged, handler)

\* _prepare_call of RunWithInputFile.start (tools.py, lines 309-320).
RunWithInputFile_prepare_call(limits, time_limit, memory_limit, privileged, handler) ==
    LET cpu == IF time_limit # <<>>
               THEN set_limit(limits, "RLIMIT_CPU", time_limit[1],
                              time_limit[1] + 5, privileged, handler)
               ELSE [raised |-> "none", limits |-> limits]
        mem == IF cpu.raised # "none" THEN cpu
               ELSE IF memory_limit # <<>>
               THEN LET hard_mem_limit == cpu.limits.RLIMIT_AS[2]
                    IN  set_limit(cpu.limits, "RLIMIT_AS",
                                  memory_limit[1] * 1024 * 1024, hard_mem_limit,
                                  privileged, handler)
               ELSE cpu
    IN  IF mem.raised # "none" THEN mem
        ELSE set_limit(mem.limits, "RLIMIT_CORE", 0, 0, privileged, handler)

\* What exec of the command can do in the child: it succeeds, the executable
\* is not found (OSError with errno ENOENT) or it fails otherwise (EACCES).
ExecErrors == {"none", "ENOENT", "EACCES"}

\* How a call of start ended: the exception that left it, whether the
\* command was started and with which limits, whether the runner
\* communicated with the process and whether it returned a result.
Started(raised, limits, communicated) ==
    [raised |-> raised, started |-> TRUE, limits |-> <<limits>>,
     communicated |-> communicated, returned |-> raised = "none"]
NotStarted(raised) ==
    [raised |-> raised, started |-> FALSE, limits |-> <<>>,
     communicated |-> FALSE, returned |-> FALSE]

\* Run.start going on after the critical log record as if the process
\* existed.
Run_start_goes_on(time_limit, memory_limit, parent, privileged, exec_error, handler) ==
    LET pre == Run_prepare_call(parent, time_limit, memory_limit, privileged,
                                handler)
    IN  IF pre.raised # "none" THEN NotStarted("SubprocessError")
        ELSE IF exec_error = "EACCES" THEN NotStarted("OSError")
        ELSE IF exec_error = "ENOENT"
        THEN [raised |-> "none", started |-> FALSE, limits |-> <<>>,
              communicated |-> TRUE, returned |-> TRUE]
        ELSE Started("none", pre.limits, TRUE)

\* Run.start (tools.py, lines 243-284).  An exception in preexec_fn makes
\* Popen raise SubprocessError, which is no OSError.  After the critical
\* record for ENOENT, process.communicate() (line 282) is evaluated with the
\* local variable process unbound if logging.critical came back.
Run_start(time_limit, memory_limit, parent, privileged, exec_error, handler) ==
    LET pre == Run_prepare_call(parent, time_limit, memory_limit, privileged,
                                handler)
    IN  IF pre.raised # "none" THEN NotStarted("SubprocessError")
        ELSE IF exec_error = "EACCES" THEN NotStarted("OSError")
        ELSE IF exec_error = "ENOENT"
        THEN IF logging_critical(handler) # "none"
             THEN NotStarted(logging_critical(handler))
             ELSE NotStarted("UnboundLocalError")
        ELSE Started("none", pre.limits, TRUE)

\* RunWithInputFile.start (tools.py, lines 300-342): as Run.start, and the
\* input file is opened and read before the runner communicates with the
\* process (lines 337-340).
RunWithInputFile_start(time_limit, memory_limit, parent, privileged, exec_error, input_exists, handler) ==
    LET pre == RunWithInputFile_prepare_call(parent, time_limit, memory_limit,
                                             privileged, handler)
    IN  IF pre.raised # "none" THEN NotStarted("SubprocessError")
        ELSE IF exec_error = "EACCES" THEN NotStarted("OSError")
        ELSE IF exec_error = "ENOENT"
        THEN IF logging_critical(handler) # "none"
             THEN NotStarted(logging_critical(handler))
             ELSE IF ~input_exists THEN NotStarted("FileNotFoundError")
             ELSE NotStarted("UnboundLocalError")
        ELSE IF ~input_exists
        THEN Started("FileNotFoundError", pre.limits, FALSE)
        ELSE Started("none", pre.limits, TRUE)

\* The limits a run can be given: Run.__init__(command, time_limit=1800,
\* memory_limit=None, log_output=None), tools.py, line 219.
TimeLimits == {<<>>} \cup {<<t>> : t \in 1..MaxTime}
MemoryLimits == {<<>>} \cup {<<m>> : m \in 1..MaxMem}

NoTool ==
    [op |-> "none", limit |-> <<>>, time_limit |-> <<>>, memory_limit |-> <<>>,
     parent |-> <<>>, privileged |-> FALSE, exec_error |-> "none",
     input_exists |-> TRUE, raised |-> "none", value |-> <<>>,
     started |-> FALSE, limits |-> <<>>, communicated |-> FALSE,
     returned |-> FALSE]

\* Before any helper was called, in a process that did not call
\* configure_logging.
InitTool ==
    /\ abort_handler = FALSE
    /\ tool = NoTool

\* configure_logging() (tools.py, lines 37-72).
Tools_configure_logging ==
    /\ ~abort_handler
    /\ tool = NoTool
    /\ abort_handler' = TRUE
    /\ UNCHANGED <<tool, engineVars, waitVars>>

\* SlurmEnvironment._get_memory_in_kb(limit)
Tools_get_memory_in_kb ==
    /\ tool = NoTool
    /\ \E limit \in MemoryStrings :
         LET r == get_memory_in_kb(limit, abort_handler)
         IN  tool' = [NoTool EXCEPT !.op = "_get_memory_in_kb",
                                    !.limit = limit,
                                    !.raised = r.raised, !.value = r.value]
    /\ UNCHANGED <<abort_handler, engineVars, waitVars>>

\* Run(command, time_limit, memory_limit).start()
Tools_Run_start ==
    /\ tool = NoTool
    /\ \E time_limit \in TimeLimits, memory_limit \in MemoryLimits,
          parent \in ParentLimits, privileged \in BOOLEAN,
          exec_error \in ExecErrors :
         LET r == Run_start(time_limit, memory_limit, parent, privileged,
                            exec_error, abort_handler)
         IN  tool' = [NoTool EXCEPT !.op = "Run.start",
                                    !.time_limit = time_limit,
                                    !.memory_limit = memory_limit,
                                    !.parent = <<parent>>,
                                    !.privileged = privileged,
                                    !.exec_error = exec_error,
                                    !.raised = r.raised,
                                    !.started = r.started,
                                    !.limits = r.limits,
                                    !.communicated = r.communicated,
                                    !.returned = r.returned]
    /\ UNCHANGED <<abort_handler, engineVars, waitVars>>

\* RunWithInputFile(command, input_file, time_limit, memory_limit).start()
Tools_RunWithInputFile_start ==
    /\ tool = NoTool
    /\ \E time_limit \in TimeLimits, memory_limit \in MemoryLimits,
          parent \in ParentLimits, privileged \in BOOLEAN,
          exec_error \in ExecErrors, input_exists \in BOOLEAN :
         LET r == RunWithInputFile_start(time_limit, memory_limit, parent,
                                         privileged, exec_error, input_exists,
                                         abort_handler)
         IN  tool' = [NoTool EXCEPT !.op = "RunWithInputFile.start",
                                    !.time_limit = time_limit,
                                    !.memory_limit = memory_limit,
                                    !.parent = <<parent>>,
                                    !.privileged = privileged,
                                    !.exec_error = exec_error,
                                    !.input_exists = input_exists,
                                    !.raised = r.raised,
                                    !.started = r.started,
                                    !.limits = r.limits,
                                    !.communicated = r.communicated,
                                    !.returned = r.returned]
    /\ UNCHANGED <<abort_handler, engineVars, waitVars>>

----------------------------------------------------------------------------
\* The specifications.

InitEnv ==
    /\ envKind \in {"local", "slurm"}
    /\ nondet \in BOOLEAN
    /\ pc = "idle"
    /\ call = NoCall
    /\ commits = <<>>
    /\ passed_over = "never"
    /\ successor = None
    /\ current_job = NoJob
    /\ critical = FALSE
    /\ batch_id = 0
    /\ batch = <<>>
    /\ outcome = <<>>
    /\ sched = <<>>
    /\ files = <<>>
    /\ first_success = 0
    /\ jobs = 0
    /\ InitWait
    /\ InitTool

\* search(initial_state, successor_generators, evaluator_filename, environment)
Init ==
    /\ InitEnv
    /\ caller = "search"
    /\ batch_size \in 1..MaxBatch
    /\ pipeline \in Pipelines
    /\ evaluator = "any"
    /\ dirs = {}
    /\ initial = MaxN
    /\ current = initial
    /\ gen = 1
    /\ stream = get_successors(pipeline[1], initial)

World ==
    \E i \in 1..Len(sched) :
        Sched_start(i) \/ Sched_hold(i) \/ Task_complete(i) \/ Task_critical(i)

Next ==
    \/ Search_submit
    \/ Search_wait
    \/ EnvPoll
    \/ Search_get
    \/ Search_advance
    \/ World

Spec == Init /\ [][Next]_vars

\* Searches with an evaluator whose verdict is a function of the state.
\* Local trivial descent: one generator yielding n-1 while n > 0, SUCCESS iff
\* n >= 2, initial state 5.
LocalTrivialDescent ==
    [initial |-> 5, pipeline |-> <<"decrement">>, evaluator |-> "ge2"]

\* Pipeline preference: G1 halves n, G2 decrements n, SUCCESS iff n > 0,
\* initial state 10.
PipelinePreference ==
    [initial |-> 10, pipeline |-> <<"halve", "decrement">>, evaluator |-> "gt0"]

\* The two searches above, and every search from a state in States with a
\* pipeline in Pipelines and one of the evaluators "ge2", "gt0" and "none"
\* (FAILURE for every state).
Searches ==
    {LocalTrivialDescent, PipelinePreference} \cup
    [initial : States, pipeline : Pipelines, evaluator : {"ge2", "gt0", "none"}]

InitRuns ==
    /\ InitEnv
    /\ caller = "search"
    /\ batch_size \in 1..MaxBatch
    /\ dirs = {}
    /\ \E run \in Searches :
         /\ initial = run.initial
         /\ pipeline = run.pipeline
         /\ evaluator = run.evaluator
    /\ current = initial
    /\ gen = 1
    /\ stream = get_successors(pipeline[1], initial)

SpecRuns == InitRuns /\ [][Next]_vars

\* The search with a polling loop that goes on: the process that called
\* wait_until_finished does nothing but loop (sleep, query, classify, lines
\* 427-475), so an iteration whose query succeeds and that ends the loop is
\* not put off forever.  Nothing is assumed about the scheduler, the tasks or
\* the queries that fail.
InitLive ==
    /\ InitEnv
    /\ envKind = "slurm"
    /\ caller = "search"
    /\ batch_size \in 1..MaxBatch
    /\ pipeline = <<"smaller">>
    /\ evaluator = "ge2"
    /\ dirs = {}
    /\ initial = MaxN
    /\ current = initial
    /\ gen = 1
    /\ stream = get_successors(pipeline[1], initial)

SpecLive == InitLive /\ [][Next]_vars /\ WF_vars(EnvPollWith("ok"))

\* What an earlier run of the same script left in eval_dir: the run directory
\* of the second task of its second batch, so the first batch and a second
\* batch of one task find their run directories free and a second batch of
\* more tasks does not.  (The search driver above starts in an empty
\* eval_dir.)
LeftOver == {{<<2, 1>>}}

\* An environment used by a client that calls its operations in any order.
InitCalls ==
    /\ InitEnv
    /\ caller = "any"
    /\ batch_size \in 1..MaxClientBatch
    /\ pipeline = <<"smaller">>
    /\ evaluator = "ge2"
    /\ dirs \in LeftOver
    /\ initial = MaxN
    /\ current = initial
    /\ gen = 1
    /\ stream = <<>>

NextCalls ==
    \/ Client_submit
    \/ Client_wait
    \/ EnvPoll
    \/ Client_get
    \/ World

SpecCalls == InitCalls /\ [][NextCalls]_vars

\* Calls of _wait_for_filesystem of a slurm environment.
InitFilesystem ==
    /\ InitEnv
    /\ envKind = "slurm"
    /\ nondet = TRUE
    /\ caller = "none"
    /\ batch_size = 1
    /\ pipeline = <<"smaller">>
    /\ evaluator = "ge2"
    /\ dirs = {}
    /\ initial = MaxN
    /\ current = initial
    /\ gen = 1
    /\ stream = <<>>

NextFilesystem ==
    \/ WaitForFilesystem_call
    \/ WaitForFilesystem_probe
    \/ WaitForFilesystem_sleep
    \/ WaitForFilesystem_give_up

SpecFilesystem == InitFilesystem /\ [][NextFilesystem]_vars

\* A process that uses a helper: it may configure logging first, and then
\* calls one of the helpers with any arguments.
InitTools == InitFilesystem

NextTools ==
    \/ Tools_configure_logging
    \/ Tools_get_memory_in_kb
    \/ Tools_Run_start
    \/ Tools_RunWithInputFile_start

SpecTools == InitTools /\ [][NextTools]_vars

----------------------------------------------------------------------------
\* Properties.

Slurm == envKind = "slurm"
Busy(i) == sched[i] \in BUSY_STATES
Done(i) == sched[i] \in DONE_STATES
Critical(i) == sched[i] \notin (DONE_STATES \cup BUSY_STATES)
Positions == 1..Len(batch)

Submitted == call.op = "submit"
Waited == call.op = "wait_until_finished"
Collected == call.op = "get_improving_successor"
Returned == call.raised = "none"

\* C1 as stated: the calls of the search driver form the repeating sequence
\* submit, wait_until_finished, get_improving_successor: a submit follows a
\* get_improving_successor (or is the first call), a wait_until_finished
\* follows a submit, a get_improving_successor follows a wait_until_finished.
C1_StrictCycle ==
    /\ Submitted => call.prev \in {"none", "get_improving_successor"}
    /\ Waited => call.prev = "submit"
    /\ Collected => call.prev = "wait_until_finished"

\* C1 as amended: the calls form that sequence, except that a submit which
\* raised SubmissionError with allow_nondeterministic_successor_choice set is
\* followed by the submit of the next batch; wait_until_finished is called
\* only after a submit that returned and get_improving_successor only after a
\* wait_until_finished that returned.
C1_PhaseDiscipline ==
    /\ Submitted =>
          \/ call.prev \in {"none", "get_improving_successor"}
          \/ call.prev = "submit" /\ call.prevRaised = "SubmissionError" /\ nondet
    /\ Waited => call.prev = "submit" /\ call.prevRaised = "none"
    /\ Collected => call.prev = "wait_until_finished" /\ call.prevRaised = "none"

\* C1: a second batch is submitted after the first one was collected and won.
C1_Witness ==
    /\ Submitted
    /\ call.prev = "get_improving_successor"
    /\ Len(commits) > 0

\* C2: a successor returned by get_improving_successor is a successor of the
\* batch whose own evaluation ended with SUCCESS and whose task is not in a
\* critical state, and it is the state the search adopts; the current state
\* of the search is always the last successor committed to.
C2_CommitOnlySuccess ==
    /\ (Collected /\ call.result # None) =>
          \E i \in Positions :
              /\ batch[i] = call.result
              /\ outcome[i] = "SUCCESS"
              /\ Slurm => Done(i)
              /\ commits # <<>> /\ commits[Len(commits)] = call.result
    /\ current = IF commits = <<>> THEN initial ELSE commits[Len(commits)].state

\* C2: the slurm environment returned a winner from a batch of three in which
\* one task failed after writing exit code 0 and another did not succeed.
C2_Witness ==
    /\ Slurm /\ Collected /\ call.result # None
    /\ Len(batch) = 3
    /\ \E i, j \in Positions :
          /\ Critical(i) /\ files[i] = "0"
          /\ Done(j) /\ outcome[j] \in {"TIMEOUT", "MEMOUT", "FAILURE", "ERROR"}

\* C3 as stated: in deterministic mode, whenever the slurm environment returns
\* from get_improving_successor, it returns what the local environment
\* returns for the same batch and the same outcomes: the lowest-indexed
\* successor with SUCCESS, or None.
C3_SameAsLocal ==
    (Slurm /\ ~nondet /\ Collected /\ Returned) =>
        call.result = LocalEnvironment_submit(None, batch, outcome).successor

\* C4 as stated: in nondeterministic mode, when get_improving_successor found
\* every result file, it returns the successor whose evaluation was the first
\* to complete with SUCCESS.
C4_FirstCompletedWins ==
    (Slurm /\ nondet /\ Collected /\ Returned /\ ~call.warned
        /\ first_success # 0) =>
        call.result = batch[first_success]

\* C5 as stated: in deterministic mode a critical task makes
\* wait_until_finished raise only if it is the first task of the batch; with
\* the first critical task at a later index the tasks before it are kept.
C5_TruncateAtFirstCritical ==
    (Slurm /\ ~nondet /\ Waited /\ call.raised \in {"EvaluatorError", "TaskError"}) =>
        Critical(1)

\* C6 as stated: in deterministic mode, for a batch [a, b, c] where a
\* completed with SUCCESS and b is FAILED, wait_until_finished returns once
\* polling is over, so that a can be collected as the winner.
C6_WinnerBeforeFailedTask ==
    (/\ Slurm /\ ~nondet /\ Len(batch) = 3
     /\ Done(1) /\ outcome[1] = "SUCCESS" /\ sched[2] = "FAILED"
     /\ Waited /\ call.raised \notin {"blocked", "PollingError"}) =>
        Returned

\* C7: in nondeterministic mode wait_until_finished never raises an error for
\* a critical task; when it has returned, the tasks left in the batch are
\* exactly the tasks that are not critical, in index order, each with its own
\* successor; and the successor returned is never that of a critical task.
C7_CriticalTasksSkipped ==
    (Slurm /\ nondet) =>
        /\ Waited => call.raised \notin {"EvaluatorError", "TaskError"}
        /\ (Waited /\ Returned) =>
              LET tasks == current_job.tasks
              IN  /\ \A i \in Positions :
                        ~Critical(i) <=> \E j \in 1..Len(tasks) : tasks[j].task_id = i - 1
                  /\ \A j \in 1..Len(tasks) :
                        /\ tasks[j].successor = batch[tasks[j].task_id + 1]
                        /\ \A k \in 1..Len(tasks) :
                              j < k => tasks[j].task_id < tasks[k].task_id
        /\ (Collected /\ call.result # None) =>
              \E i \in Positions : batch[i] = call.result /\ ~Critical(i)

\* C7: wait_until_finished returned for a batch [a, b, c] with b FAILED, and
\* a and c are the tasks left.
C7_Witness ==
    /\ Slurm /\ nondet /\ Waited /\ Returned
    /\ Len(batch) = 3
    /\ Done(1) /\ sched[2] = "FAILED" /\ Done(3)
    /\ Len(current_job.tasks) = 2

\* C8 as stated: wait_until_finished does not end while a task of the batch
\* is in a busy state.
C8_BlockedWhileBusy ==
    (Slurm /\ Waited /\ call.raised # "blocked") =>
        \A i \in Positions : ~Busy(i)

\* C8 as amended: wait_until_finished does not return while a task of the
\* batch is in a busy state; while one is, it ends only by an exception of
\* the status update (PollingError, or KeyError or AssertionError from
\* _update_slurm_status) or, in deterministic mode, by raising EvaluatorError
\* for a critical task that has no busy task before it.
C8_NoReturnWhileBusy ==
    (Slurm /\ Waited /\ call.raised # "blocked"
        /\ \E i \in Positions : Busy(i)) =>
        \/ call.raised \in {"PollingError", "KeyError", "AssertionError"}
        \/ /\ ~nondet
           /\ call.raised = "EvaluatorError"
           /\ \E k \in Positions :
                 Critical(k) /\ \A j \in 1..(k - 1) : ~Busy(j)

\* C8: wait_until_finished was left by EvaluatorError while a task was busy.
C8_Witness ==
    /\ Slurm /\ Waited /\ call.raised = "EvaluatorError"
    /\ \E i \in Positions : Busy(i)

\* C9 as stated: after get_improving_successor returned, no batch is in
\* flight in the environment.
C9_NoBatchInFlight ==
    (Collected /\ Returned) => current_job = NoJob /\ successor = None

\* C10 as stated: a call out of phase (submit with a batch in flight,
\* wait_until_finished or get_improving_successor with none) raises an error.
C10_OutOfPhaseRejected ==
    (\/ Submitted /\ call.phase # "idle"
     \/ (Waited \/ Collected) /\ call.phase = "idle") =>
        call.raised = "AssertionError"

\* C11: when LocalEnvironment.submit has returned, the successors of the batch
\* were evaluated in submission order up to the first SUCCESS: the stored
\* winner is the lowest-indexed successor whose evaluation ended with SUCCESS
\* (None when there is none), every successor before it was evaluated and did
\* not succeed, and no successor after it was evaluated.
C11_LocalFirstSuccess ==
    (envKind = "local" /\ Submitted /\ Returned) =>
        LET S == {i \in Positions : outcome[i] = "SUCCESS"}
        IN  IF S = {}
            THEN /\ successor = None
                 /\ \A i \in Positions : outcome[i] # "none"
            ELSE /\ successor = batch[Min(S)]
                 /\ \A i \in Positions :
                       /\ i < Min(S) => outcome[i] \notin {"none", "SUCCESS"}
                       /\ i > Min(S) => outcome[i] = "none"

\* C11: a batch of three in which the first successor failed and the second
\* succeeded: the third was not evaluated.
C11_Witness ==
    /\ envKind = "local" /\ Submitted /\ Returned
    /\ Len(batch) = 3
    /\ outcome[1] = "FAILURE" /\ outcome[2] = "SUCCESS" /\ outcome[3] = "none"
    /\ successor = batch[2]

Accepted(g, s, e) ==
    SelectSeq(get_successors(g, s), LAMBDA x : Verdicts(e, x.state) = {"SUCCESS"})

\* Some generator of the pipeline has a successor of the current state that
\* the evaluator accepts.
SuccessLeft ==
    \E g \in 1..Len(pipeline) : Accepted(pipeline[g], current, evaluator) # <<>>

\* The commits of the sequential greedy descent from state s with pipeline p
\* and evaluator e: the first accepted successor of the first generator that
\* has one, and so on from there.
RECURSIVE Descent(_, _, _)
Descent(s, p, e) ==
    LET G == {g \in 1..Len(p) : Accepted(p[g], s, e) # <<>>}
    IN  IF G = {} THEN <<>>
        ELSE LET w == Accepted(p[Min(G)], s, e)[1]
             IN  <<w>> \o Descent(w.state, p, e)

IsSearch(run) ==
    /\ initial = run.initial
    /\ pipeline = run.pipeline
    /\ evaluator = run.evaluator

\* C13: a commit resets the generator index to the first generator and the
\* stream to the successors of the newly committed state under it; a batch
\* submitted directly after a commit is the first batch of that stream; and
\* every batch in flight consists of successors of the current state under
\* the current generator, so no batch of an abandoned stream is submitted.
C13_PipelineRestart ==
    /\ [](pc \in {"submitted", "polling", "waited"} =>
            /\ gen <= Len(pipeline)
            /\ \E k \in 0..Len(get_successors(pipeline[gen], current)) :
                  batch \o stream = Drop(get_successors(pipeline[gen], current), k))
    /\ [][(Len(commits') > Len(commits) =>
               /\ gen' = 1
               /\ current' = commits'[Len(commits')].state
               /\ stream' = get_successors(pipeline[1], current'))
          /\ ((/\ Collected /\ call.result # None
               /\ call' # call /\ call'.op = "submit" /\ call'.raised = "none") =>
               /\ gen' = 1
               /\ batch' = Take(get_successors(pipeline[1], current), batch_size))]_vars

\* C13: the search committed to a successor of the second generator and then
\* submitted a batch of the first generator on the new state.
C13_Witness ==
    /\ Submitted /\ Returned
    /\ call.prev = "get_improving_successor"
    /\ commits # <<>> /\ commits[Len(commits)].change = "decrement"
    /\ batch = Take(get_successors("halve", current), batch_size)
    /\ batch # <<>>

\* C14 as stated: when the search has returned, no generator of the pipeline
\* has a successor of the returned state that the evaluator accepts.
C14_NoSuccessLeft ==
    pc = "done" => ~SuccessLeft

\* C14 as amended: the search returns only when every generator is used up
\* on the final state; then no generator has a successor of the final state
\* that the evaluator accepts, unless a successor of the final state was left
\* without a verdict, which does not happen in the local environment.
C14_NoSuccessLeftUnlessPassedOver ==
    /\ pc = "done" =>
          /\ gen = Len(pipeline) + 1 /\ stream = <<>>
          /\ passed_over # "here" => ~SuccessLeft
    /\ envKind = "local" => passed_over = "never"

\* C14: a search in the slurm environment returned after it had committed
\* and, before its last commit, left a successor without a verdict.
C14_Witness ==
    /\ pc = "done" /\ Slurm
    /\ passed_over = "before"
    /\ commits # <<>>
    /\ ~SuccessLeft

\* C15: with an evaluator that returns FAILURE for every state the search
\* never commits, its current state stays the initial state, and that is the
\* state it returns.
C15_NoProgress ==
    evaluator = "none" =>
        /\ commits = <<>>
        /\ current = initial
        /\ pc = "done" => gen = Len(pipeline) + 1

\* C15: a search with two generators in the slurm environment returned the
\* initial state after every evaluation failed.
C15_Witness ==
    /\ evaluator = "none" /\ pc = "done" /\ Slurm
    /\ Len(pipeline) = 2 /\ initial = MaxN
    /\ current = initial /\ commits = <<>>
    /\ jobs = 2

C17_LocalTrivialDescent ==
    (IsSearch(LocalTrivialDescent) /\ envKind = "local") =>
        /\ Len(commits) <= 3
        /\ pc # "aborted"
        /\ pc = "done" =>
              /\ current = 2
              /\ [i \in 1..Len(commits) |-> commits[i].state] = <<4, 3, 2>>

\* C17: the local search of the scenario returned.
C17_Witness ==
    /\ IsSearch(LocalTrivialDescent) /\ envKind = "local"
    /\ pc = "done" /\ current = 2 /\ Len(commits) = 3

\* C18 as stated: in deterministic mode every search that returns, returns
\* the result of the sequential greedy descent on its inputs, so that two
\* runs on the same inputs return the same final state and the same commits.
C18_DeterministicOutput ==
    (~nondet /\ pc = "done") =>
        /\ commits = Descent(initial, pipeline, evaluator)
        /\ current = IF commits = <<>> THEN initial
                      ELSE commits[Len(commits)].state

C21_InFlightHasJobId ==
    (Slurm /\ current_job # NoJob) => current_job.job_id # ""

\* C22: a submit of the search driver (the step of an idle driver that takes
\* a batch from the stream) that ends with SubmissionError aborts
\* the search in deterministic mode; in nondeterministic mode the driver
\* drops the batch from the stream, keeps the current state, the generator
\* and the commits, has no batch in flight and is ready to submit the next
\* batch.  A search that was aborted stays aborted.
C22_SubmissionErrorFatalOrSkipped ==
    [][/\ (pc = "idle" /\ stream # <<>> /\ stream' # stream /\ call'.op = "submit"
             /\ call'.raised = "SubmissionError") =>
                IF nondet
                THEN /\ pc' = "idle"
                     /\ stream' = Drop(stream, batch_size)
                     /\ current' = current /\ gen' = gen /\ commits' = commits
                     /\ current_job' = NoJob
                ELSE pc' = "aborted"
       /\ (pc = "aborted" => pc' = "aborted")]_vars

\* C22: in nondeterministic mode a batch was accepted right after the submit
\* of the batch before it had ended with SubmissionError.
C22_Witness ==
    /\ Slurm /\ nondet /\ caller = "search"
    /\ pc = "submitted" /\ Submitted /\ Returned
    /\ call.prev = "submit" /\ call.prevRaised = "SubmissionError"
    /\ current = initial /\ Len(stream) < Len(get_successors(pipeline[1], initial))

\* C23 as stated: a wait_until_finished that does not return, and does not
\* end with the error of a critical task or of a call out of order, ends
\* with PollingError.
C23_PollingErrorOnBadAnswer ==
    (Slurm /\ Waited) =>
        call.raised \in {"none", "blocked", "PollingError", "EvaluatorError",
                         "TaskError", "AssertionError"}

\* C24 as stated: in deterministic mode a get_improving_successor that gave
\* up waiting for the exit_code of a task aborts the search.
C24_MissingResultAborts ==
    (Slurm /\ ~nondet /\ Collected /\ call.warned) => pc = "aborted"

\* C28: in deterministic mode, a wait that ended with the error of a critical
\* task finds every task before the first critical one in a DONE state, and
\* a successor that get_improving_successor returned belongs to a task all
\* of whose predecessors in the batch are in a DONE state and did not
\* succeed.
C28_DecidesInTaskOrder ==
    /\ (Slurm /\ ~nondet /\ Waited /\ call.raised = "EvaluatorError") =>
          LET k == Min({i \in Positions : Critical(i)})
          IN  /\ {i \in Positions : Critical(i)} # {}
              /\ \A i \in 1..(k - 1) : Done(i)
    /\ (Slurm /\ ~nondet /\ Collected /\ Returned /\ call.result # None) =>
          \E k \in Positions :
              /\ batch[k] = call.result
              /\ \A i \in 1..(k - 1) : Done(i) /\ outcome[i] # "SUCCESS"

\* C28: the error of a critical task was raised for the second task of a
\* batch, after the first one completed.
C28_Witness ==
    /\ Slurm /\ ~nondet /\ Waited /\ call.raised = "EvaluatorError"
    /\ Len(batch) >= 2 /\ Done(1) /\ Critical(2)

\* C29: when the driver calls get_improving_successor, every task of the
\* batch in flight is in a DONE state at the scheduler (none is pending,
\* running, suspended or requeued), holds the successor it was submitted
\* with and the run directory of its own index in this batch, which exists;
\* and a successor that is returned belongs to a task in a DONE state whose
\* exit_code file is there and holds 0.
C29_ReadsAfterDone ==
    [][(Slurm /\ pc = "waited" /\ pc' # "waited") =>
          /\ current_job # NoJob
          /\ \A j \in 1..Len(current_job.tasks) :
                LET task == current_job.tasks[j]
                IN  /\ task.task_id + 1 \in Positions
                    /\ Done(task.task_id + 1)
                    /\ task.successor = batch[task.task_id + 1]
                    /\ task.run_dir = <<batch_id, task.task_id>>
                    /\ task.run_dir \in dirs
          /\ call'.result # None =>
                \E j \in 1..Len(current_job.tasks) :
                    LET task == current_job.tasks[j]
                    IN  /\ task.successor = call'.result
                        /\ files[task.task_id + 1] # NoFile
                        /\ parse_exit_code(files[task.task_id + 1]) = 0]_vars

\* C29: the successor of the second task was returned after the exit_code of
\* the first task, which had completed, was read and was not 0.
C29_Witness ==
    /\ Slurm /\ nondet /\ Collected /\ Returned /\ ~call.warned
    /\ Len(batch) >= 2 /\ call.result = batch[2]
    /\ Done(1) /\ Done(2)
    /\ files[1] # NoFile /\ parse_exit_code(files[1]) # 0

\* C30 as stated: the j-th task of the batch in flight (counted from 0) has
\* the index j, the j-th successor of the batch and the run directory j.
C30_ContiguousIndices ==
    (Slurm /\ current_job # NoJob) =>
        \A j \in 1..Len(current_job.tasks) :
            LET task == current_job.tasks[j]
            IN  /\ task.task_id = j - 1
                /\ task.successor = batch[j]
                /\ task.run_dir = <<batch_id, j - 1>>

\* C30 as amended: every task of the batch in flight keeps the index it was
\* submitted with, and holds the successor and the run directory of that
\* index; the indices grow along the list; and they are the contiguous
\* indices 0..n-1 of the tasks that are left as long as no critical task was
\* removed from between them, which is always so in deterministic mode,
\* where the batch is only truncated.
C30_IndicesKept ==
    (Slurm /\ current_job # NoJob) =>
        LET tasks == current_job.tasks
        IN  /\ \A j \in 1..Len(tasks) :
                  /\ tasks[j].task_id + 1 \in Positions
                  /\ tasks[j].successor = batch[tasks[j].task_id + 1]
                  /\ tasks[j].run_dir = <<batch_id, tasks[j].task_id>>
            /\ \A j, k \in 1..Len(tasks) :
                  j < k => tasks[j].task_id < tasks[k].task_id
            /\ (~nondet \/ \A i \in Positions : ~Critical(i)) =>
                  \A j \in 1..Len(tasks) : tasks[j].task_id = j - 1

\* C30: the first task of a batch of two was removed as critical; the task
\* that is left is the first of the list and carries the index 1.
C30_Witness ==
    /\ Slurm /\ nondet /\ pc = "waited"
    /\ Len(batch) = 2 /\ Critical(1)
    /\ Len(current_job.tasks) = 1
    /\ current_job.tasks[1].task_id = 1
    /\ current_job.tasks[1].run_dir = <<batch_id, 1>>

\* A memory string as the claim describes it: one or more digits, followed
\* by nothing or by one of the suffixes k, m, g in either case.
WellFormedMemory(limit) ==
    \E d \in 1..Len(limit) :
        /\ \A i \in 1..d : limit[i] \in Digits
        /\ \/ d = Len(limit)
           \/ d = Len(limit) - 1 /\ limit[Len(limit)] \in Suffixes

\* C25 as stated: _get_memory_in_kb gives N*1024 for 'N' and 'Nm', N for
\* 'Nk' and N*1024*1024 for 'Ng', in either case of the suffix, and for any
\* other string it ends with an exception and gives no value.
C25_MemoryInKb ==
    tool.op = "_get_memory_in_kb" =>
        IF WellFormedMemory(tool.limit)
        THEN LET last == tool.limit[Len(tool.limit)]
                 N == int(SelectSeq(tool.limit, LAMBDA c : c \in Digits))
             IN  /\ tool.raised = "none"
                 /\ tool.value = <<IF last \in {"k", "K"} THEN N
                                   ELSE IF last \in {"g", "G"} THEN N * 1024 * 1024
                                   ELSE N * 1024>>
        ELSE /\ tool.raised # "none"
             /\ tool.value = <<>>

\* C26 as stated: a command that was started by a run with the time limit T
\* and the memory limit M runs with the CPU limits T and T + 5, the
\* address-space limit M*1024*1024 and the core limits 0, with or without an
\* input file.
C26_LimitsInstalled ==
    (/\ tool.op \in {"Run.start", "RunWithInputFile.start"}
     /\ tool.started
     /\ tool.time_limit # <<>> /\ tool.memory_limit # <<>>) =>
        LET T == tool.time_limit[1]
            M == tool.memory_limit[1]
            limits == tool.limits[1]
        IN  /\ limits.RLIMIT_CPU = <<T, T + 5>>
            /\ limits.RLIMIT_CPU[2] > limits.RLIMIT_CPU[1]
            /\ limits.RLIMIT_AS[1] = M * 1024 * 1024
            /\ limits.RLIMIT_CORE = <<0, 0>>

AllCriticalWaitEnds ==
    /\ Slurm /\ nondet /\ pc = "polling" /\ pc' # "polling"
    /\ Positions # {} /\ \A i \in Positions : Critical(i)
    /\ call'.raised \notin {"PollingError", "KeyError", "AssertionError"}

\* One step of the environment as C32 has it.
C32_Step ==
    /\ AllCriticalWaitEnds =>
          /\ call'.raised = "none"
          /\ critical' /\ current_job' # NoJob /\ current_job'.tasks = <<>>
    /\ (Slurm /\ nondet /\ Waited /\ critical /\ Collected') =>
          /\ call'.raised = "none" /\ call'.result = None
          /\ current_job' = NoJob /\ ~critical'

\* The flag self.critical is clear whenever no batch is in flight, and so
\* whenever a batch has just been submitted.
C32_FlagClear ==
    /\ (Slurm /\ current_job = NoJob) => ~critical
    /\ (Slurm /\ Submitted /\ Returned) => ~critical

\* C32: in nondeterministic mode, when every task of the batch ended in a
\* critical state, wait_until_finished returns normally with the flag
\* self.critical set, and the get_improving_successor that follows returns
\* None, releases the batch and clears the flag; the flag is clear whenever no
\* batch is in flight, so a batch submitted later starts with it clear.
C32_AllCriticalBatchReleased == []C32_FlagClear /\ [][C32_Step]_vars

\* C32: in nondeterministic mode get_improving_successor returned None after a
\* wait_until_finished on a batch of two tasks that both ended in a critical
\* state; the batch is released and the flag is clear.
C32_Witness ==
    /\ Slurm /\ nondet /\ Collected /\ Returned /\ call.result = None
    /\ call.prev = "wait_until_finished"
    /\ Len(batch) = 2 /\ \A i \in Positions : Critical(i)
    /\ current_job = NoJob /\ ~critical

\* C31: in either mode, whenever wait_until_finished is polling and no task
\* of the batch in flight is in a busy state (tasks do not become busy again),
\* wait_until_finished eventually returns or raises.
C31_WaitEnds ==
    (Slurm /\ pc = "polling" /\ \A i \in Positions : ~Busy(i))
        ~> (pc # "polling")

\* C31: in nondeterministic mode wait_until_finished returned for a batch of
\* two tasks of which one completed and one ended in a critical state.
C31_Witness ==
    /\ Slurm /\ nondet /\ Waited /\ Returned /\ pc = "waited"
    /\ Len(batch) = 2
    /\ Critical(1) /\ Done(2)

\* C19 as stated: a call of the filesystem wait returns true exactly if every
\* path it was given becomes visible within FILESYSTEM_TIME_LIMIT seconds of
\* the call, also a path that becomes visible during the last interval
\* before the limit, and it asks the filesystem at most
\* ceil(FILESYSTEM_TIME_LIMIT / FILESYSTEM_TIME_INTERVAL) times.
C19_WaitForFilesystem ==
    wait_pc = "returned" =>
        /\ wait_result <=>
              \A path \in DOMAIN visible_at : visible_at[path] <= FILESYSTEM_TIME_LIMIT
        /\ probes <= (FILESYSTEM_TIME_LIMIT + FILESYSTEM_TIME_INTERVAL - 1)
                        \div FILESYSTEM_TIME_INTERVAL

====
